---------------------------- MODULE Spec2Model ----------------------------
(***************************************************************************)
(* Model of the its-broken-triage router (src/agent.ts): one invocation of *)
(* the agent, from start through its resumptions (onToolResults) to a      *)
(* terminal output.  The host (agents SDK) is the environment: it persists *)
(* what task.save is given, answers task.restore with the persisted record *)
(* or with nothing, and delivers a list of tool results on each            *)
(* resumption.                                                             *)
(***************************************************************************)
EXTENDS Integers, Sequences, FiniteSets, TLC

VARIABLES
    pc,           \* "init" | "waiting" | "done" | "faulted"
    input,        \* the text of the inbound event (a sequence of characters)
    persisted,    \* what the host holds for the invocation: Undefined or a State
    outstanding,  \* the tool calls in flight
    lastOp,       \* the handler that ran last: "none" | "start" | "onToolResults"
    lastResults,  \* the results delivered to the last resumption
    lastRestored, \* what task.restore returned in the last resumption
    lastOps,      \* the task API calls the last handler made, in order
    lastReturn,   \* the AgentResult the last handler returned (or a fault)
    issued,       \* every tool call issued so far, in order
    lookedUp,     \* the channel-name values checking_channel resumptions found
    running,      \* resumptions that have restored the state and not yet returned
    begun,        \* how many such resumptions the host has begun
    overlapped    \* whether one of them began while another was running

vars == <<pc, input, persisted, outstanding, lastOp, lastResults,
          lastRestored, lastOps, lastReturn, issued, lookedUp,
          running, begun, overlapped>>

---------------------------------------------------------------------------
(* Bounds of the model *)

\* longest list of results the host delivers on one resumption
MaxResults == 2
\* longest generated input text, in fragments
MaxFrags == 4
\* most resumptions the host begins by delivering results again
MaxBegun == 3

---------------------------------------------------------------------------
(* JavaScript values, as far as the router looks at them *)

Undefined == [t |-> "undefined"]
Null == [t |-> "null"]
\* a string: text taken from the input is a sequence of characters, every
\* other text a string literal
Str(s) == [t |-> "str", v |-> s]
Num(n) == [t |-> "num", v |-> n]

\* falsy values: what `!v` and `v || w` test
Truthy(v) ==
    CASE v.t = "undefined" -> FALSE
      [] v.t = "null" -> FALSE
      [] v.t = "str" -> Len(v.v) # 0
      [] v.t = "num" -> v.v # 0
      [] OTHER -> TRUE

\* v.f: a TypeError on undefined and null, undefined where the property is absent
Throws(v) == v.t \in {"undefined", "null"}
Get(v, f) == IF v.t = "obj" /\ f \in DOMAIN v THEN v[f] ELSE Undefined

\* v?.f
GetOpt(v, f) == IF Throws(v) THEN Undefined ELSE Get(v, f)

Digit == <<"0", "1", "2", "3", "4", "5", "6", "7", "8", "9">>

RECURSIVE Dec(_)
Dec(n) == IF n < 10 THEN Digit[n + 1] ELSE Dec(n \div 10) \o Digit[(n % 10) + 1]

\* `${v}` of a truthy string or number
TemplateString(v) ==
    CASE v.t = "str" -> v.v
      [] v.t = "num" -> Dec(v.v)
      [] OTHER -> "[object Object]"

---------------------------------------------------------------------------
(* src/agent.ts *)

TARGET_CHANNEL == "its-broken"

LOOKUP == "slack_get_conversation_info"
WORKER == "its_broken_triage_worker"

\* characters
UpperSeq == <<"A","B","C","D","E","F","G","H","I","J","K","L","M",
              "N","O","P","Q","R","S","T","U","V","W","X","Y","Z">>
LowerSeq == <<"a","b","c","d","e","f","g","h","i","j","k","l","m",
              "n","o","p","q","r","s","t","u","v","w","x","y","z">>
Range(f) == {f[i] : i \in DOMAIN f}
ToLower(c) == IF \E i \in 1..26 : UpperSeq[i] = c
              THEN LowerSeq[CHOOSE i \in 1..26 : UpperSeq[i] = c]
              ELSE c
\* \s
IsWs(c) == c \in {" ", "\t", "\n", "\r"}
\* [A-Z0-9] under the i flag
IsAlnum(c) == c \in Range(UpperSeq) \cup Range(LowerSeq) \cup Range(Digit)

QUOTE == "\""
ChannelKey == <<QUOTE, "c", "h", "a", "n", "n", "e", "l", QUOTE>>

\* the first position from i on that holds no character of the class
RECURSIVE SkipWs(_, _)
SkipWs(s, i) == IF i <= Len(s) /\ IsWs(s[i]) THEN SkipWs(s, i + 1) ELSE i
RECURSIVE SkipAlnum(_, _)
SkipAlnum(s, i) == IF i <= Len(s) /\ IsAlnum(s[i]) THEN SkipAlnum(s, i + 1) ELSE i

At(s, i, c) == i <= Len(s) /\ s[i] = c

\* /"channel"\s*:\s*"([A-Z0-9]+)"/i anchored at position i: the captured
\* group (a string), or Null.  Every quantifier is followed by a character outside its
\* class, so the greedy match is the only one.
\* (variant: the pattern without its closing quote)
MatchAtUnclosed(s, i) ==
    IF /\ i + 8 <= Len(s)
       /\ \A k \in 1..9 : ToLower(s[i + k - 1]) = ChannelKey[k]
    THEN LET colon == SkipWs(s, i + 9)
             open  == SkipWs(s, colon + 1)
             close == SkipAlnum(s, open + 1)
         IN  IF /\ At(s, colon, ":")
                /\ At(s, open, QUOTE)
                /\ close > open + 1
             THEN Str(SubSeq(s, open + 1, close - 1))
             ELSE Null
    ELSE Null
MatchAt(s, i) ==
    IF /\ i + 8 <= Len(s)
       /\ \A k \in 1..9 : ToLower(s[i + k - 1]) = ChannelKey[k]
    THEN LET colon == SkipWs(s, i + 9)
             open  == SkipWs(s, colon + 1)
             close == SkipAlnum(s, open + 1)
         IN  IF /\ At(s, colon, ":")
                /\ At(s, open, QUOTE)
                /\ close > open + 1
                /\ At(s, close, QUOTE)
             THEN Str(SubSeq(s, open + 1, close - 1))
             ELSE Null
    ELSE Null

\* String.prototype.match without the g flag: the leftmost match
\* (variant: the rightmost match)
RECURSIVE MatchFromLast(_, _)
MatchFromLast(s, i) ==
    IF i > Len(s) THEN Null
    ELSE LET later == MatchFromLast(s, i + 1)
         IN  IF later # Null THEN later ELSE MatchAt(s, i)
RECURSIVE MatchFrom(_, _)
MatchFrom(s, i) ==
    IF i > Len(s) THEN Null
    ELSE IF MatchAt(s, i) # Null THEN MatchAt(s, i)
    ELSE MatchFrom(s, i + 1)

extractChannelId(inputText) == MatchFrom(inputText, 1)

\* the State record of stateSchema
State(originalInput, channelId, channelName, stage) ==
    [originalInput |-> originalInput, channelId |-> channelId,
     channelName |-> channelName, stage |-> stage]

\* what a handler returns
Output(text) == [type |-> "output", output |-> [type |-> "text", text |-> text]]
callTools(calls) == [type |-> "tool-calls", calls |-> calls]
\* a TypeError thrown out of the handler (its promise rejects)
Fault == [type |-> "fault"]

\* the task API calls of a handler
Restore == [op |-> "restore"]
Save(state) == [op |-> "save", state |-> state]

\* what a handler did: the task API calls it made and what it returned
Did(ops, ret) == [ops |-> ops, ret |-> ret]

LookupCall(channelId) ==
    [type |-> "tool-call", toolCallId |-> "check-channel",
     toolName |-> LOOKUP, input |-> [channel |-> channelId]]

WorkerCall(text) ==
    [type |-> "tool-call", toolCallId |-> "run-triage",
     toolName |-> WORKER, input |-> [type |-> "text", text |-> text]]

\* (variant: the state saved before the channel id is looked at)
StartSavingFirst(inputText) ==
    LET channelId == extractChannelId(inputText)
    IN  IF ~Truthy(channelId)
        THEN Did(<<Save(State(inputText, <<>>, "", "checking_channel"))>>,
                 Output(Str("Could not extract channel ID from webhook payload. Skipping.")))
        ELSE Did(<<Save(State(inputText, channelId.v, "", "checking_channel"))>>,
                 callTools(<<LookupCall(channelId.v)>>))
start(inputText) ==
    LET channelId == extractChannelId(inputText)
    IN  IF ~Truthy(channelId)
        THEN Did(<<>>, Output(Str("Could not extract channel ID from webhook payload. Skipping.")))
        ELSE Did(<<Save(State(inputText, channelId.v, "", "checking_channel"))>>,
                 callTools(<<LookupCall(channelId.v)>>))

\* results.find((r) => r.toolName === name): the first such result, or Undefined
RECURSIVE FindFrom(_, _, _)
FindFrom(results, name, i) ==
    IF i > Len(results) THEN Undefined
    ELSE IF results[i].toolName = name THEN results[i]
    ELSE FindFrom(results, name, i + 1)

\* (variant: the first result, whatever its name)
FindAnyName(results, name) == IF results = <<>> THEN Undefined ELSE results[1]
find(results, name) == FindFrom(results, name, 1)

\* the negation of channelName !== TARGET_CHANNEL
\* (variant: a comparison that ignores case)
IsTargetAnyCase(channelName) ==
    channelName.t = "str" /\ channelName.v \in {"its-broken", "Its-Broken", "ITS-BROKEN"}
IsTarget(channelName) == channelName.t = "str" /\ channelName.v = TARGET_CHANNEL

\* the skip text (variant: the two names exchanged)
SkipTextSwapped(channelName) ==
    "Skipped: Message was in #" \o TARGET_CHANNEL
        \o ", not #" \o TemplateString(channelName)
SkipText(channelName) ==
    "Skipped: Message was in #" \o TemplateString(channelName)
        \o ", not #" \o TARGET_CHANNEL

\* the call of the worker: the original input text, as restored
\* (variant: the channel id passed in place of the text)
TriageCallOfChannelId(state) == WorkerCall(state.channelId)
TriageCall(state) == WorkerCall(state.originalInput)

\* the channel matches: save the new stage, then call the worker
\* (variants: without the save; with the lookup called again beside the
\* worker; with a stage outside the schema; without the channel name; with
\* the state written anew)
DelegateMisnamed(state, channelName) ==
    Did(<<Restore,
          Save([state EXCEPT !.channelName = channelName.v,
                             !.stage = "triage_running"])>>,
        callTools(<<TriageCall(state)>>))
DelegateUnnamed(state, channelName) ==
    Did(<<Restore, Save([state EXCEPT !.stage = "running_triage"])>>,
        callTools(<<TriageCall(state)>>))
DelegateAnew(state, channelName) ==
    Did(<<Restore, Save(State(<<>>, <<>>, channelName.v, "running_triage"))>>,
        callTools(<<TriageCall(state)>>))
DelegateUnsaved(state, channelName) ==
    Did(<<Restore>>, callTools(<<TriageCall(state)>>))
DelegateWithLookup(state, channelName) ==
    Did(<<Restore,
          Save([state EXCEPT !.channelName = channelName.v,
                             !.stage = "running_triage"])>>,
        callTools(<<LookupCall(state.channelId), TriageCall(state)>>))
delegate(state, channelName) ==
    Did(<<Restore,
          Save([state EXCEPT !.channelName = channelName.v,
                             !.stage = "running_triage"])>>,
        callTools(<<TriageCall(state)>>))

\* the branch for state.stage === "checking_channel"
\* (variant: the lookup called again when its result is missing)
CheckingChannelRetrying(results, state) ==
    LET channelResult == find(results, LOOKUP)
    IN  IF channelResult = Undefined
        THEN Did(<<Restore>>, callTools(<<LookupCall(state.channelId)>>))
        ELSE IF Throws(channelResult.output)
        THEN Did(<<Restore>>, Fault)
        ELSE LET channelName == GetOpt(Get(channelResult.output, "channel"), "name")
             IN  IF ~Truthy(channelName)
                 THEN Did(<<Restore>>, Output(Str("Error: Could not determine channel name")))
                 ELSE IF ~IsTarget(channelName)
                 THEN Did(<<Restore>>, Output(Str(SkipText(channelName))))
                 ELSE delegate(state, channelName)
\* (variant: a name that is missing taken for a mismatch)
CheckingChannelUnnamed(results, state) ==
    LET channelResult == find(results, LOOKUP)
    IN  IF channelResult = Undefined
        THEN Did(<<Restore>>, Output(Str("Error: Could not get channel info from Slack")))
        ELSE IF Throws(channelResult.output)
        THEN Did(<<Restore>>, Fault)
        ELSE LET channelName == GetOpt(Get(channelResult.output, "channel"), "name")
             IN  IF ~IsTarget(channelName)
                 THEN Did(<<Restore>>, Output(Str(SkipText(channelName))))
                 ELSE delegate(state, channelName)
checkingChannel(results, state) ==
    LET channelResult == find(results, LOOKUP)
    IN  IF channelResult = Undefined
        THEN Did(<<Restore>>, Output(Str("Error: Could not get channel info from Slack")))
        ELSE IF Throws(channelResult.output)
        THEN Did(<<Restore>>, Fault)
        ELSE LET channelName == GetOpt(Get(channelResult.output, "channel"), "name")
             IN  IF ~Truthy(channelName)
                 THEN Did(<<Restore>>, Output(Str("Error: Could not determine channel name")))
                 ELSE IF ~IsTarget(channelName)
                 THEN Did(<<Restore>>, Output(Str(SkipText(channelName))))
                 ELSE delegate(state, channelName)

\* workerOutput.text || "Triage completed"
\* (variant: ?? in place of ||)
OrElseNullish(v, w) == IF v.t \in {"undefined", "null"} THEN w ELSE v
OrElse(v, w) == IF Truthy(v) THEN v ELSE w

\* the branch for state.stage === "running_triage"
\* (variant: the stage set back when the worker result is missing)
RunningTriageResetting(results, state) ==
    LET triageResult == find(results, WORKER)
    IN  IF triageResult = Undefined
        THEN Did(<<Restore, Save([state EXCEPT !.stage = "checking_channel"])>>,
                 Output(Str("Error: Triage worker did not return a result")))
        ELSE IF Throws(triageResult.output)
        THEN Did(<<Restore>>, Fault)
        ELSE Did(<<Restore>>,
                 Output(OrElse(Get(triageResult.output, "text"), Str("Triage completed"))))
runningTriage(results, state) ==
    LET triageResult == find(results, WORKER)
    IN  IF triageResult = Undefined
        THEN Did(<<Restore>>, Output(Str("Error: Triage worker did not return a result")))
        ELSE IF Throws(triageResult.output)
        THEN Did(<<Restore>>, Fault)
        ELSE Did(<<Restore>>,
                 Output(OrElse(Get(triageResult.output, "text"), Str("Triage completed"))))

\* state is what task.restore() returned
\* (variant: without the check of the restored state, state.stage throws)
OnToolResultsUnchecked(results, state) ==
    IF state = Undefined THEN Did(<<Restore>>, Fault)
    ELSE IF state.stage = "checking_channel" THEN checkingChannel(results, state)
    ELSE IF state.stage = "running_triage" THEN runningTriage(results, state)
    ELSE Did(<<Restore>>, Output(Str("Unexpected state")))
onToolResults(results, state) ==
    IF state = Undefined
    THEN Did(<<Restore>>, Output(Str("Error: Could not restore state")))
    ELSE IF state.stage = "checking_channel" THEN checkingChannel(results, state)
    ELSE IF state.stage = "running_triage" THEN runningTriage(results, state)
    ELSE Did(<<Restore>>, Output(Str("Unexpected state")))

---------------------------------------------------------------------------
(* The environment: inbound events and what the host delivers *)

Obj == [t |-> "obj"]
ChannelInfo(channel) == [t |-> "obj", channel |-> channel]
Channel(name) == [t |-> "obj", name |-> name]
WorkerOutput(text) == [t |-> "obj", type |-> Str("text"), text |-> text]

ToolResult(toolName, output) == [toolName |-> toolName, output |-> output]

\* outputs of slack_get_conversation_info: missing, without a channel, without
\* a name, and with names empty, equal to the target, and different from it
LookupOutputs ==
    {Undefined, ChannelInfo(Null), ChannelInfo(Obj),
     ChannelInfo(Channel(Str(""))),
     ChannelInfo(Channel(Str("its-broken"))),
     ChannelInfo(Channel(Str("random-chan"))),
     ChannelInfo(Channel(Str("Its-Broken"))),
     ChannelInfo(Channel(Num(42)))}

\* outputs of its_broken_triage_worker: missing, with an empty text, with a
\* text, and with a text that is no string
WorkerOutputs ==
    {Undefined, WorkerOutput(Str("")), WorkerOutput(Str("Created issue #7")),
     WorkerOutput(Str("Issue #42 created")), WorkerOutput(Num(42))}

ResultSet ==
    {ToolResult(LOOKUP, o) : o \in LookupOutputs}
        \cup {ToolResult(WORKER, o) : o \in WorkerOutputs}

SeqsUpTo(S, n) == UNION {[1..k -> S] : k \in 0..n}

ResultLists == SeqsUpTo(ResultSet, MaxResults)

Quoted(s) == <<QUOTE>> \o s \o <<QUOTE>>
KeyMixed == <<QUOTE, "C", "h", "a", "n", "n", "E", "L", QUOTE>>

\* inbound event texts of the invocations checked end to end
Inputs ==
    {<<"{">> \o ChannelKey \o <<":">> \o Quoted(<<"C", "1", "1", "1">>) \o <<"}">>,
     <<"{">> \o ChannelKey \o <<":">> \o Quoted(<<"C", "2", "2", "2">>) \o <<"}">>,
     KeyMixed \o <<" ", ":", "\n">> \o Quoted(<<"c", "9">>),
     <<"h", "e", "l", "l", "o">>,
     <<"{">> \o ChannelKey \o <<":">> \o Quoted(<<>>) \o <<"}">>,
     <<"{">> \o ChannelKey \o <<":">> \o Quoted(<<"C", "-", "1">>) \o <<"}">>,
     <<>>}

\* fragments of generated event texts
Fragments ==
    {ChannelKey, KeyMixed, <<":">>, <<" ">>, Quoted(<<"C", "1">>), Quoted(<<>>),
     Quoted(<<"C", "-", "1">>), ChannelKey \o <<":">> \o Quoted(<<"a", "1">>)}

RECURSIVE Flatten(_)
Flatten(fs) == IF fs = <<>> THEN <<>> ELSE Head(fs) \o Flatten(Tail(fs))

GenInputs == {Flatten(fs) : fs \in SeqsUpTo(Fragments, MaxFrags)}

---------------------------------------------------------------------------
(* The state machine *)

\* the state of the last save among ops, or else what was persisted
RECURSIVE AfterOps(_, _)
AfterOps(ops, held) ==
    IF ops = <<>> THEN held
    ELSE AfterOps(Tail(ops), IF Head(ops).op = "save" THEN Head(ops).state ELSE held)

\* the channel name a checking_channel resumption is given: that of the first
\* result named slack_get_conversation_info
FirstOf(results, name) ==
    {i \in 1..Len(results) :
        /\ results[i].toolName = name
        /\ \A j \in 1..(i - 1) : results[j].toolName # name}

NameIn(output) ==
    IF /\ output.t = "obj" /\ "channel" \in DOMAIN output
       /\ output.channel.t = "obj" /\ "name" \in DOMAIN output.channel
    THEN output.channel.name
    ELSE Undefined

NamesGiven(results, restored) ==
    IF restored # Undefined /\ restored.stage = "checking_channel"
    THEN {NameIn(results[i].output) : i \in FirstOf(results, LOOKUP)}
    ELSE {}

\* the host takes what the handler did: it persists the saves (a resumption
\* starts from what restore returned), parks the invocation on the calls
\* returned, or ends it
TookFrom(held, op, results, restored, did) ==
    /\ persisted' = AfterOps(did.ops, held)
    /\ pc' = CASE did.ret.type = "tool-calls" -> "waiting"
               [] did.ret.type = "output" -> "done"
               [] OTHER -> "faulted"
    /\ outstanding' = IF did.ret.type = "tool-calls" THEN Range(did.ret.calls) ELSE {}
    /\ issued' = IF did.ret.type = "tool-calls" THEN issued \o did.ret.calls ELSE issued
    /\ lastOp' = op
    /\ lastResults' = results
    /\ lastRestored' = restored
    /\ lastOps' = did.ops
    /\ lastReturn' = did.ret
    /\ lookedUp' = lookedUp \cup NamesGiven(results, restored)
    /\ UNCHANGED input

Took(op, results, restored, did) ==
    TookFrom(IF op = "start" THEN persisted ELSE restored, op, results, restored, did)

InitWith(texts) ==
    /\ pc = "init"
    /\ input \in texts
    /\ persisted = Undefined
    /\ outstanding = {}
    /\ lastOp = "none"
    /\ lastResults = <<>>
    /\ lastRestored = Undefined
    /\ lastOps = <<>>
    /\ lastReturn = [type |-> "none"]
    /\ issued = <<>>
    /\ lookedUp = {}
    /\ running = <<>>
    /\ begun = 0
    /\ overlapped = FALSE

Init == InitWith(Inputs)

\* the host runs start on the inbound event
Start ==
    /\ pc = "init"
    /\ Took("start", <<>>, Undefined, start(input))
    /\ UNCHANGED <<running, begun, overlapped>>

\* the host resumes the parked invocation with a list of results; restore
\* answers with the persisted state, or with nothing when the host has lost it
OnToolResults ==
    /\ pc = "waiting"
    /\ \E results \in ResultLists, restored \in {persisted, Undefined} :
          Took("onToolResults", results, restored, onToolResults(results, restored))
    /\ UNCHANGED <<running, begun, overlapped>>

Next == Start \/ OnToolResults

Spec == Init /\ [][Next]_vars

\* the same with the fairness of a host that runs start and delivers the
\* result of every outstanding call
SpecFair == Spec /\ WF_vars(Start) /\ WF_vars(OnToolResults)

\* start alone, on generated event texts
InitStart == InitWith(GenInputs)
NextStart == Start
SpecStart == InitStart /\ [][NextStart]_vars

\* A host that delivers results again, and whose resumptions may overlap:
\* a resumption restores the state in one step and does the rest, to its
\* return, in another.  A resumption that begins while none is running and
\* ends before the next begins runs as onToolResults does in one piece.
Redelivered == SeqsUpTo(ResultSet, 1)

BeginResume ==
    /\ pc # "init"
    /\ issued # <<>>
    /\ begun < MaxBegun
    /\ \E results \in Redelivered :
          running' = Append(running, [results |-> results, restored |-> persisted])
    /\ begun' = begun + 1
    /\ overlapped' = (overlapped \/ running # <<>>)
    /\ UNCHANGED <<pc, input, persisted, outstanding, lastOp, lastResults,
                   lastRestored, lastOps, lastReturn, issued, lookedUp>>

FinishResume ==
    /\ \E i \in 1..Len(running) :
          /\ TookFrom(persisted, "onToolResults", running[i].results, running[i].restored,
                      onToolResults(running[i].results, running[i].restored))
          /\ running' = SubSeq(running, 1, i - 1) \o SubSeq(running, i + 1, Len(running))
    /\ UNCHANGED <<begun, overlapped>>

NextRedeliver == Start \/ BeginResume \/ FinishResume
SpecRedeliver == Init /\ [][NextRedeliver]_vars

---------------------------------------------------------------------------
(* Properties *)

Calls(toolName) == {i \in 1..Len(issued) : issued[i].toolName = toolName}
WorkerIssued == Calls(WORKER) # {} \/ \E c \in outstanding : c.toolName = WORKER

\* the last handler was a resumption that restored a state of this stage
ResumedIn(stage) ==
    /\ lastOp = "onToolResults"
    /\ lastRestored # Undefined
    /\ lastRestored.stage = stage

TextOutput(text) ==
    [type |-> "output", output |-> [type |-> "text", text |-> [t |-> "str", v |-> text]]]

\* C1: the worker call is never issued unless a checking_channel resumption
\* was given a lookup result whose channel name is exactly "its-broken"; after
\* any other name no worker call exists in any later state of the invocation.
C1_CostGate == WorkerIssued => Str("its-broken") \in lookedUp

C1_Witness ==
    /\ pc = "done"
    /\ lookedUp = {Str("Its-Broken")}
    /\ ~WorkerIssued

\* C2 as stated: every looked-up name other than the target ends the
\* checking_channel resumption with the skip text naming it and the target.
C2_Original ==
    ResumedIn("checking_channel") =>
        \A n \in NamesGiven(lastResults, lastRestored) :
            (n.t = "str" /\ n.v # "its-broken") =>
                lastReturn = TextOutput("Skipped: Message was in #" \o n.v
                                            \o ", not #its-broken")

\* C2 (amended): every non-empty looked-up name other than the target ends the
\* checking_channel resumption with the skip text naming it and the target;
\* "random-chan" gives "Skipped: Message was in #random-chan, not #its-broken".
C2_SkipText ==
    ResumedIn("checking_channel") =>
        \A n \in NamesGiven(lastResults, lastRestored) :
            /\ (n.t = "str" /\ n.v # "" /\ n.v # "its-broken") =>
                  /\ pc = "done"
                  /\ lastReturn = TextOutput("Skipped: Message was in #" \o n.v
                                                \o ", not #its-broken")
            /\ n = Str("random-chan") =>
                  lastReturn = TextOutput("Skipped: Message was in #random-chan, not #its-broken")

C2_Witness ==
    /\ ResumedIn("checking_channel")
    /\ Str("random-chan") \in NamesGiven(lastResults, lastRestored)
    /\ pc = "done"

\* C3: once a checking_channel resumption was given the name "its-broken",
\* exactly one worker call has been issued in the invocation, and its text is
\* the input text given to start; no invocation issues a second one.
C3_OneWorkerCall ==
    /\ Cardinality(Calls(WORKER)) <= 1
    /\ Str("its-broken") \in lookedUp =>
          /\ Cardinality(Calls(WORKER)) = 1
          /\ \A i \in Calls(WORKER) : issued[i].input = [type |-> "text", text |-> input]

C3_Witness ==
    /\ pc = "done"
    /\ Str("its-broken") \in lookedUp
    /\ Cardinality(Calls(WORKER)) = 1

\* a "channel":"<token>" field, with optional white space around the colon,
\* the field name in either case and a non-empty alphanumeric token
SameLetter(a, b) ==
    a = b \/ \E j \in 1..26 : {a, b} = {UpperSeq[j], LowerSeq[j]}

HasChannelField(s) ==
    \E i \in 1..Len(s) :
        /\ i + 8 <= Len(s)
        /\ \A k \in 1..9 : SameLetter(s[i + k - 1], ChannelKey[k])
        /\ \E c \in (i + 9)..Len(s) :
              /\ s[c] = ":"
              /\ \A k \in (i + 9)..(c - 1) : IsWs(s[k])
              /\ \E o \in (c + 1)..Len(s) :
                    /\ s[o] = QUOTE
                    /\ \A k \in (c + 1)..(o - 1) : IsWs(s[k])
                    /\ \E e \in (o + 2)..Len(s) :
                          /\ s[e] = QUOTE
                          /\ \A k \in (o + 1)..(e - 1) : IsAlnum(s[k])

\* C4: on an input text without a channel field start ends at once with the
\* extraction-failure text, issues no call and saves nothing.
C4_NoChannelId ==
    (lastOp = "start" /\ ~HasChannelField(input)) =>
        /\ pc = "done"
        /\ lastReturn = TextOutput("Could not extract channel ID from webhook payload. Skipping.")
        /\ issued = <<>>
        /\ outstanding = {}
        /\ lastOps = <<>>
        /\ persisted = Undefined

C4_Witness ==
    /\ lastOp = "start"
    /\ pc = "done"
    /\ ~HasChannelField(input)
    /\ Len(input) > 9
    /\ SubSeq(input, 1, 9) = ChannelKey

\* C5: a resumption whose restore returns nothing ends with "Error: Could
\* not restore state", whatever the results and whichever call was
\* outstanding; it issues no call, saves nothing and does not fault.
C5_RestoreFailed ==
    (lastOp = "onToolResults" /\ lastRestored = Undefined) =>
        /\ pc = "done"
        /\ lastReturn = TextOutput("Error: Could not restore state")
        /\ outstanding = {}
        /\ \A i \in 1..Len(lastOps) : lastOps[i].op # "save"

C5_Witness ==
    /\ lastOp = "onToolResults"
    /\ lastRestored = Undefined
    /\ Calls(WORKER) # {}
    /\ lastResults = <<ToolResult(WORKER, Undefined)>>

\* C6: a running_triage resumption given a worker result with a text returns
\* that text unchanged when it is not empty and "Triage completed" when it is
\* empty; the text "Created issue #7" gives the output "Created issue #7".
C6_WorkerText ==
    ResumedIn("running_triage") =>
        \A i \in FirstOf(lastResults, WORKER) :
            LET o == lastResults[i].output
            IN  (o.t = "obj" /\ "text" \in DOMAIN o /\ o.text.t = "str") =>
                    /\ pc = "done"
                    /\ o.text.v # "" => lastReturn = TextOutput(o.text.v)
                    /\ o.text.v = "" => lastReturn = TextOutput("Triage completed")
                    /\ o.text = Str("Created issue #7") =>
                          lastReturn.output.text.v = "Created issue #7"

C6_Witness ==
    /\ ResumedIn("running_triage")
    /\ lastResults = <<ToolResult(WORKER, WorkerOutput(Str("Created issue #7")))>>
    /\ lastReturn = TextOutput("Created issue #7")
    /\ Str("its-broken") \in lookedUp

\* C7 as stated: once a terminal output is returned no persisted record
\* remains.
C7_Original == pc = "done" => persisted = Undefined

\* C7 (amended): the router never deletes what it saved: in a state in which
\* the invocation has ended, no record is persisted only if start ended it
\* (the extraction failure, before any save) or the host had none to restore;
\* after a resumption that restored a state, the record of the last save is
\* still persisted, with the input text of start.
C7_NeverDeleted ==
    pc \in {"done", "faulted"} =>
        IF lastOp = "start" \/ lastRestored = Undefined
        THEN persisted = Undefined
        ELSE /\ persisted # Undefined
             /\ persisted.originalInput = input
             /\ persisted.stage = (IF Calls(WORKER) = {} THEN "checking_channel"
                                   ELSE "running_triage")

C7_Witness ==
    /\ pc = "done"
    /\ ResumedIn("running_triage")
    /\ persisted # Undefined
    /\ persisted.stage = "running_triage"

StageOf(toolName) ==
    IF toolName = LOOKUP THEN "checking_channel" ELSE "running_triage"

\* C8: while a call is outstanding the persisted state exists and has the
\* stage of that call, saved by the handler that returned the call; a
\* resumption restores exactly once, first of all, and start never restores.
C8_SavedBeforeCall ==
    /\ \A c \in outstanding :
          /\ persisted # Undefined
          /\ persisted.stage = StageOf(c.toolName)
          /\ lastOps # <<>>
          /\ lastOps[Len(lastOps)] = Save(persisted)
    /\ lastOp = "onToolResults" =>
          /\ lastOps # <<>>
          /\ lastOps[1] = Restore
          /\ Cardinality({i \in 1..Len(lastOps) : lastOps[i].op = "restore"}) = 1
    /\ lastOp = "start" => \A i \in 1..Len(lastOps) : lastOps[i].op # "restore"

C8_Witness ==
    /\ pc = "waiting"
    /\ \E c \in outstanding : c.toolName = WORKER
    /\ persisted.stage = "running_triage"
    /\ lastOps = <<Restore, Save(persisted)>>

\* C9: every handler returns no call or exactly one, and at most one call
\* is outstanding in any state.
C9_OneCallAtATime ==
    /\ Cardinality(outstanding) <= 1
    /\ lastReturn.type = "tool-calls" => Len(lastReturn.calls) = 1
    /\ pc = "waiting" <=> Cardinality(outstanding) = 1

C9_Witness ==
    /\ Len(issued) = 2
    /\ outstanding = {issued[2]}
    /\ issued[1].toolName = LOOKUP
    /\ issued[2].toolName = WORKER

\* C10: no handler ends in a fault: each returns exactly one tool call or an
\* output {type: "text", text: <string>}, whatever results are delivered.
C10_NoFault ==
    /\ pc # "faulted"
    /\ lastReturn.type # "fault"
    /\ lastReturn.type = "output" =>
          /\ lastReturn.output.type = "text"
          /\ lastReturn.output.text.t = "str"
    /\ lastReturn.type = "tool-calls" => Len(lastReturn.calls) = 1

\* the failures of the router: no channel id in the input, no state restored,
\* no lookup result, no channel name, another channel, no worker result
NamedIn(results) ==
    {NameIn(results[i].output) :
        i \in {j \in FirstOf(results, LOOKUP) : results[j].output.t = "obj"}}

FailureCase ==
    \/ lastOp = "start" /\ ~HasChannelField(input)
    \/ lastOp = "onToolResults" /\ lastRestored = Undefined
    \/ ResumedIn("checking_channel") /\ FirstOf(lastResults, LOOKUP) = {}
    \/ ResumedIn("checking_channel") /\
           \E n \in NamedIn(lastResults) : n # Str("its-broken")
    \/ ResumedIn("running_triage") /\ FirstOf(lastResults, WORKER) = {}

\* C11: within one invocation the lookup is called at most once and the
\* worker at most once, and every failure (extraction, restore, missing lookup
\* result, missing name, mismatch, missing worker result) ends the invocation
\* with an output and no call outstanding.
C11_NoRetries ==
    /\ Cardinality(Calls(LOOKUP)) <= 1
    /\ Cardinality(Calls(WORKER)) <= 1
    /\ FailureCase =>
          /\ pc = "done"
          /\ lastReturn.type = "output"
          /\ outstanding = {}

C11_Witness ==
    /\ ResumedIn("running_triage")
    /\ FirstOf(lastResults, WORKER) = {}
    /\ lastResults # <<>>
    /\ pc = "done"
    /\ Len(issued) = 2

\* C12: the persisted stage never goes back: a step leaves it as it was or
\* takes it from checking_channel to running_triage, and that only in a
\* resumption given the channel name "its-broken".
C12_NoBackTransition ==
    [][(persisted # Undefined /\ persisted' # Undefined) =>
          \/ persisted'.stage = persisted.stage
          \/ /\ persisted.stage = "checking_channel"
             /\ persisted'.stage = "running_triage"
             /\ lastOp' = "onToolResults"
             /\ Str("its-broken") \in NamesGiven(lastResults', lastRestored')]_vars

C12_Witness ==
    /\ ResumedIn("checking_channel")
    /\ persisted # Undefined
    /\ persisted.stage = "running_triage"
    /\ Str("its-broken") \in NamesGiven(lastResults, lastRestored)

\* C13: a checking_channel resumption whose results hold no entry named
\* slack_get_conversation_info ends with "Error: Could not get channel info
\* from Slack", and a running_triage resumption whose results hold no entry
\* named its_broken_triage_worker with "Error: Triage worker did not return a
\* result"; neither issues a call or saves.
C13_ByToolName ==
    /\ (ResumedIn("checking_channel") /\ FirstOf(lastResults, LOOKUP) = {}) =>
          /\ lastReturn = TextOutput("Error: Could not get channel info from Slack")
          /\ outstanding = {}
          /\ lastOps = <<Restore>>
    /\ (ResumedIn("running_triage") /\ FirstOf(lastResults, WORKER) = {}) =>
          /\ lastReturn = TextOutput("Error: Triage worker did not return a result")
          /\ outstanding = {}
          /\ lastOps = <<Restore>>

C13_Witness ==
    /\ ResumedIn("checking_channel")
    /\ lastResults = <<ToolResult(WORKER, WorkerOutput(Str("Created issue #7")))>>
    /\ lastReturn = TextOutput("Error: Could not get channel info from Slack")

\* C14: a checking_channel resumption whose lookup result has no channel or a
\* channel without a name ends with "Error: Could not determine channel
\* name", issues no worker call and leaves the persisted stage at
\* checking_channel.
C14_NoChannelName ==
    (ResumedIn("checking_channel") /\ Undefined \in NamedIn(lastResults)) =>
        /\ pc = "done"
        /\ lastReturn = TextOutput("Error: Could not determine channel name")
        /\ ~WorkerIssued
        /\ persisted = lastRestored
        /\ persisted.stage = "checking_channel"

C14_Witness ==
    /\ ResumedIn("checking_channel")
    /\ lastResults = <<ToolResult(LOOKUP, ChannelInfo(Obj))>>
    /\ pc = "done"

\* the channel fields that begin at position i: the positions of the quotes
\* around the token
FieldsAt(s, i) ==
    IF /\ i + 8 <= Len(s)
       /\ \A k \in 1..9 : SameLetter(s[i + k - 1], ChannelKey[k])
    THEN UNION {{<<o, e>> : e \in {x \in (o + 2)..Len(s) :
                                      /\ s[x] = QUOTE
                                      /\ \A k \in (o + 1)..(x - 1) : IsAlnum(s[k])}} :
                o \in {y \in (i + 10)..Len(s) :
                          /\ s[y] = QUOTE
                          /\ \E c \in (i + 9)..(y - 1) :
                                /\ s[c] = ":"
                                /\ \A k \in ((i + 9)..(y - 1)) \ {c} : IsWs(s[k])}}
    ELSE {}

FieldStarts(s) == {i \in 1..Len(s) : FieldsAt(s, i) # {}}

\* the token of the first channel field of a text that has one
FirstToken(s) ==
    LET i  == CHOOSE x \in FieldStarts(s) : \A y \in FieldStarts(s) : x <= y
        oe == CHOOSE x \in FieldsAt(s, i) : TRUE
    IN  SubSeq(s, oe[1] + 1, oe[2] - 1)

\* C15: on a text with a channel field start saves the initial state
\* {originalInput: the text, channelId: the token of the first field,
\* channelName: "", stage: checking_channel} and then returns exactly one call,
\* of slack_get_conversation_info with that token as channel; the field name
\* and the token may be in either case.
C15_StartLooksUp ==
    (lastOp = "start" /\ HasChannelField(input)) =>
        LET token == FirstToken(input)
            saved == [originalInput |-> input, channelId |-> token,
                      channelName |-> "", stage |-> "checking_channel"]
        IN  /\ pc = "waiting"
            /\ lastOps = <<[op |-> "save", state |-> saved]>>
            /\ persisted = saved
            /\ lastReturn.type = "tool-calls"
            /\ Len(lastReturn.calls) = 1
            /\ lastReturn.calls[1].toolName = "slack_get_conversation_info"
            /\ lastReturn.calls[1].input = [channel |-> token]
            /\ outstanding = {lastReturn.calls[1]}
            /\ issued = lastReturn.calls

C15_Witness ==
    /\ lastOp = "start"
    /\ pc = "waiting"
    /\ SubSeq(input, 1, 9) = KeyMixed
    /\ Cardinality(FieldStarts(input)) = 2
    /\ persisted.channelId = <<"C", "1">>

\* C16: with restore returning the last saved state or nothing, no handler
\* ever returns "Unexpected state": every restored state has one of the two
\* stages of the schema.
C16_NoUnexpectedState ==
    /\ lastReturn # TextOutput("Unexpected state")
    /\ persisted # Undefined => persisted.stage \in {"checking_channel", "running_triage"}
    /\ (lastOp = "onToolResults" /\ lastRestored # Undefined) =>
          lastRestored.stage \in {"checking_channel", "running_triage"}

C16_Witness ==
    /\ ResumedIn("running_triage")
    /\ lastReturn.type = "output"
    /\ lastResults = <<>>

\* C18: a persisted state of stage checking_channel has the channel name "",
\* and one of stage running_triage the channel name "its-broken".
C18_StageAndName ==
    persisted # Undefined =>
        /\ persisted.stage = "checking_channel" => persisted.channelName = ""
        /\ persisted.stage = "running_triage" => persisted.channelName = "its-broken"

C18_Witness ==
    /\ persisted # Undefined
    /\ persisted.stage = "running_triage"
    /\ persisted.channelName = "its-broken"
    /\ pc = "done"

Saves(ops) == {ops[i].state : i \in {j \in 1..Len(ops) : ops[j].op = "save"}}

\* C19: no resumption changes the persisted originalInput or channelId: the
\* state a resumption saves is the restored one with channelName and stage
\* changed, it is saved only where the worker is called, and a resumption that
\* ends in an output saves nothing.
C19_Frame ==
    /\ persisted # Undefined =>
          /\ persisted.originalInput = input
          /\ persisted.channelId = issued[1].input.channel
    /\ lastOp = "onToolResults" =>
          /\ \A st \in Saves(lastOps) :
                /\ lastRestored # Undefined
                /\ st = [lastRestored EXCEPT !.channelName = st.channelName,
                                             !.stage = st.stage]
                /\ lastReturn.type = "tool-calls"
          /\ lastReturn.type = "output" => Saves(lastOps) = {}

C19_Witness ==
    /\ ResumedIn("checking_channel")
    /\ Saves(lastOps) # {}
    /\ persisted.originalInput = input
    /\ persisted.stage = "running_triage"
    /\ pc = "waiting"

\* C17: once the host has delivered the results of the outstanding calls the
\* invocation has returned an output, after start and at most two
\* resumptions: a state that is not the end of the invocation has a handler
\* left to run.
C17_Terminates ==
    /\ pc = "done" \/ ENABLED Next
    /\ Len(issued) <= 2

MatchingLookup == <<ToolResult(LOOKUP, ChannelInfo(Channel(Str("its-broken"))))>>

\* C20: while no two resumptions overlap, delivering the matching lookup
\* result again never issues a second worker call: the resumption given it in
\* stage running_triage returns "Error: Triage worker did not return a
\* result".  Two overlapping resumptions that both restored checking_channel
\* and were given the matching name issue one worker call each.
C20_Redelivery ==
    /\ ~overlapped => Cardinality(Calls(WORKER)) <= 1
    /\ (ResumedIn("running_triage") /\ lastResults = MatchingLookup) =>
          /\ lastReturn = TextOutput("Error: Triage worker did not return a result")
          /\ outstanding = {}
    /\ (ResumedIn("checking_channel") /\ lastResults = MatchingLookup) =>
          /\ lastReturn.type = "tool-calls"
          /\ Calls(WORKER) # {}

C20_Witness ==
    /\ overlapped
    /\ Cardinality(Calls(WORKER)) = 2
    /\ running = <<>>
    /\ ResumedIn("running_triage")
    /\ lastResults = MatchingLookup
    /\ lastReturn = TextOutput("Error: Triage worker did not return a result")

====
